---- MODULE Spec2Model ----
(***************************************************************************)
(* Model of the AI Clinical Assistant API (src/main.py): one POST /analyze *)
(* request travelling through input validation, BMI computation, the call  *)
(* to the external analysis provider, code-fence stripping and JSON        *)
(* parsing (or the static fallback), and construction of the               *)
(* ClinicalSummaryResponse.                                                *)
(*                                                                         *)
(* Numbers: JSON numbers are modelled as integers.  height_cm and          *)
(* weight_kg are whole centimetres / kilograms, hba1c is in tenths of a    *)
(* percent, bmi is in tenths (229 stands for 22.9).                        *)
(***************************************************************************)
EXTENDS Integers, Sequences, FiniteSets, TLC

VARIABLES pc, body, patient, bmi, calls, outcome, analysis, source,
          logged, status, response

vars == <<pc, body, patient, bmi, calls, outcome, analysis, source,
          logged, status, response>>

----------------------------------------------------------------------------
(* Bounds *)

MaxTextLen == 3

----------------------------------------------------------------------------
(* Values.  Every value carries its kind so that values of different      *)
(* kinds are never compared directly.                                     *)

Absent == [k |-> "absent"]
JNull == [k |-> "null"]
None == [k |-> "none"]
JStr(x) == [k |-> "str", s |-> x]
JInt(x) == [k |-> "int", i |-> x]
JBool(x) == [k |-> "bool", b |-> x]
\* A JSON string that spells the integer x, such as "45".
JNumStr(x) == [k |-> "numstr", i |-> x, s |-> ToString(x)]
JList(x) == [k |-> "list", l |-> x]
JObj(x) == [k |-> "obj", o |-> x]

----------------------------------------------------------------------------
(* PatientInput *)

StrFields == {"patient_id", "name", "gender", "notes"}

IntFields == {"age", "bp_systolic", "bp_diastolic", "fasting_glucose",
              "total_cholesterol", "hdl", "ldl", "triglycerides",
              "alcohol_units_per_week", "physical_activity_min_per_week"}

FloatFields == {"height_cm", "weight_kg", "hba1c"}

BoolFields == {"smoker"}

PatientFields == StrFields \cup IntFields \cup FloatFields \cup BoolFields

\* Fields declared Optional[...]: null is accepted and becomes None.
OptionalFields == {"hba1c", "alcohol_units_per_week",
                   "physical_activity_min_per_week", "notes"}

\* Fields declared with a default: they may be left out of the body.
DefaultedFields == OptionalFields \cup {"smoker"}

RequiredFields == PatientFields \ DefaultedFields

FieldDefault(f) ==
  CASE f = "smoker" -> JBool(FALSE)
    [] f = "alcohol_units_per_week" -> JInt(0)
    [] f = "physical_activity_min_per_week" -> JInt(0)
    [] OTHER -> None

\* The value pydantic stores for field f given the body's entry v, or
\* [k |-> "error"] when the entry is rejected.  Validation converts where
\* it can: a numeric string is taken for a number field, and 0 / 1 (also as
\* "0" / "1") for a bool field.
ValidateField(f, v) ==
  CASE v.k = "absent" ->
         IF f \in DefaultedFields THEN FieldDefault(f) ELSE [k |-> "error"]
    [] v.k = "null" ->
         IF f \in OptionalFields THEN None ELSE [k |-> "error"]
    [] v.k = "str" -> IF f \in StrFields THEN v ELSE [k |-> "error"]
    [] v.k = "int" ->
         IF f \in IntFields \cup FloatFields THEN v
         ELSE IF f \in BoolFields /\ v.i \in {0, 1} THEN JBool(v.i = 1)
         ELSE [k |-> "error"]
    [] v.k = "bool" -> IF f \in BoolFields THEN v ELSE [k |-> "error"]
    [] v.k = "numstr" ->
         IF f \in IntFields \cup FloatFields THEN JInt(v.i)
         ELSE IF f \in StrFields THEN JStr(v.s)
         ELSE IF v.i \in {0, 1} THEN JBool(v.i = 1)
         ELSE [k |-> "error"]
    [] OTHER -> [k |-> "error"]

ValidationErrors(b) ==
  {f \in PatientFields : ValidateField(f, b[f]).k = "error"}

ParsePatient(b) == [f \in PatientFields |-> ValidateField(f, b[f])]

----------------------------------------------------------------------------
(* calculate_bmi and the formatted strings *)

\* The integers round() may return for n / d (d > 0, n >= 0): the nearest
\* one.  When n / d lies exactly halfway, the floating-point quotient may
\* fall on either side of the tie (3 / 0.4 ** 2 is 18.749999999999996), so
\* either neighbour is possible.
RoundNearest(n, d) ==
  LET q == n \div d
      r == n % d
  IN  IF 2 * r < d THEN {q}
      ELSE IF 2 * r > d THEN {q + 1}
      ELSE {q, q + 1}

\* Variant: the quotient is cut to one decimal instead of rounded.
calculate_bmi_Truncated(weight, height) ==
  {(weight * 100000) \div (height * height)}

\* round(weight / ((height / 100) ** 2), 1), in tenths: the set of values
\* the call may return.  (height / 100) ** 2 is never negative; the
\* division raises when it is 0.
calculate_bmi(weight, height) ==
  LET n == weight * 100000
      d == height * height
  IN  IF n >= 0 THEN RoundNearest(n, d)
      ELSE {0 - x : x \in RoundNearest(0 - n, d)}

\* str() of a float given in tenths: 57 -> "5.7"
FormatTenths(x) == ToString(x \div 10) \o "." \o ToString(x % 10)

FormatBp(p) ==
  ToString(p.bp_systolic.i) \o "/" \o ToString(p.bp_diastolic.i) \o " mmHg"

\* `patient.hba1c or 'N/A'`: None and 0.0 are both falsy.
FormatGlucose(p) ==
  ToString(p.fasting_glucose.i) \o " mg/dL (HbA1c "
    \o (IF p.hba1c.k = "none" \/ p.hba1c.i = 0
        THEN "N/A" ELSE FormatTenths(p.hba1c.i))
    \o "%)"

FormatLipid(p) ==
  "Total: " \o ToString(p.total_cholesterol.i)
    \o ", HDL: " \o ToString(p.hdl.i)
    \o ", LDL: " \o ToString(p.ldl.i)
    \o ", Trig: " \o ToString(p.triglycerides.i)

----------------------------------------------------------------------------
(* The provider's reply *)

\* The keys the prompt asks the provider for.
AnalysisKeys == {"summary", "risk_score", "risk_bucket",
                 "contributing_factors", "potential_future_risks",
                 "personalized_recommendations",
                 "recommended_lifestyle_programs"}

RiskBuckets == {"Normal", "Potential Risk", "High Risk"}

Catalog == {"Weight Management & Nutrition", "Diabetes Prevention Program",
            "Hypertension Control", "Smoking Cessation Support",
            "Active Lifestyle & Fitness", "Heart Health & Cholesterol",
            "Stress & Sleep Optimization", "Alcohol Reduction Program",
            "General Wellness Checkup"}

\* Variant: the fallback ignores the smoker flag.
Fallback_IgnoresSmoker(p) ==
  JObj([summary |-> JStr("High-risk profile detected"),
        risk_score |-> JInt(82),
        risk_bucket |-> JStr("High Risk"),
        contributing_factors |->
          JList(<<"Obesity", "Hypertension", "Dyslipidemia",
                  "Prediabetes/Diabetes", "Sedentary lifestyle">>),
        potential_future_risks |->
          JList(<<"Heart Attack", "Stroke", "Type 2 Diabetes",
                  "Kidney Disease", "Peripheral Artery Disease">>),
        personalized_recommendations |->
          JList(<<"Lose 8-10% body weight in 6 months", "Walk 40 mins daily",
                  "Follow DASH or Mediterranean diet",
                  "Increase activity to 200+ min/week",
                  "Limit salt <5g/day", "Sleep 7-9 hours",
                  "Monitor BP daily", "Repeat HbA1c in 3 months">>),
        recommended_lifestyle_programs |->
          JList(<<"Weight Management & Nutrition", "Hypertension Control",
                  "Diabetes Prevention Program",
                  "Heart Health & Cholesterol">>)])

\* The static payload of the except branch.
Fallback(p) ==
  JObj([summary |-> JStr("High-risk profile detected"),
        risk_score |-> JInt(82),
        risk_bucket |-> JStr("High Risk"),
        contributing_factors |->
          JList(<<"Obesity", "Hypertension", "Dyslipidemia",
                  "Prediabetes/Diabetes",
                  IF p.smoker.b THEN "Smoking" ELSE "Sedentary lifestyle">>),
        potential_future_risks |->
          JList(<<"Heart Attack", "Stroke", "Type 2 Diabetes",
                  "Kidney Disease", "Peripheral Artery Disease">>),
        personalized_recommendations |->
          JList(<<"Lose 8-10% body weight in 6 months", "Walk 40 mins daily",
                  "Follow DASH or Mediterranean diet",
                  IF p.smoker.b THEN "Quit smoking immediately"
                                ELSE "Increase activity to 200+ min/week",
                  "Limit salt <5g/day", "Sleep 7-9 hours",
                  "Monitor BP daily", "Repeat HbA1c in 3 months">>),
        recommended_lifestyle_programs |->
          JList(<<"Weight Management & Nutrition", "Hypertension Control",
                  "Diabetes Prevention Program",
                  "Heart Health & Cholesterol">>)])

\* Tokens of the provider's raw text.  FenceJson is the opening code fence
\* with the json tag, Fence a bare code fence (three backquotes).
FenceJson == "<fence>json"
Fence == "<fence>"
Space == " "
Prose == "Here is the analysis:"
Doc == "<json>"

TextTokens == {FenceJson, Fence, Space, Prose, Doc}

RECURSIVE Replace(_, _)
\* str.replace(tok, "")
Replace(text, tok) ==
  IF text = << >> THEN << >>
  ELSE IF Head(text) = tok THEN Replace(Tail(text), tok)
  ELSE <<Head(text)>> \o Replace(Tail(text), tok)

RECURSIVE LStrip(_)
LStrip(text) ==
  IF text # << >> /\ Head(text) = Space THEN LStrip(Tail(text)) ELSE text

RECURSIVE RStrip(_)
RStrip(text) ==
  IF text # << >> /\ text[Len(text)] = Space
  THEN RStrip(SubSeq(text, 1, Len(text) - 1)) ELSE text

\* str.strip()
Strip(text) == RStrip(LStrip(text))

\* response.text.strip().replace("```json", "").replace("```", "").strip()
StripFences(text) == Strip(Replace(Replace(Strip(text), FenceJson), Fence))

\* json.loads succeeds exactly on one JSON document (surrounding whitespace
\* allowed); prose, an empty text or trailing data raise.
JsonLoads(text) ==
  IF Replace(text, Space) = <<Doc>> THEN "ok" ELSE "error"

----------------------------------------------------------------------------
(* ClinicalSummaryResponse *)

\* Keyword arguments analyze_patient passes explicitly.
ExplicitKeys == {"patient_id", "name", "age", "gender", "bmi", "bp",
                 "glucose_hba1c", "lipid_profile"}

AnalysisFieldKind(key) ==
  CASE key = "summary" -> "str"
    [] key = "risk_score" -> "int"
    [] key = "risk_bucket" -> "str"
    [] OTHER -> "list"

\* Variant: a keyword given twice is not an error.
BuildOutcome_NoDuplicateCheck(a) ==
  IF a.k # "obj" THEN "TypeError"
  ELSE IF \E key \in AnalysisKeys :
            \/ key \notin DOMAIN a.o
            \/ a.o[key].k # AnalysisFieldKind(key)
       THEN "ValidationError"
  ELSE "ok"

\* ClinicalSummaryResponse(<explicit keywords>, **a): the outcome of the
\* call, "ok" or the exception it raises.
BuildOutcome(a) ==
  IF a.k # "obj" THEN "TypeError"
  ELSE IF DOMAIN a.o \cap ExplicitKeys # {} THEN "TypeError"
  ELSE IF \E key \in AnalysisKeys :
            \/ key \notin DOMAIN a.o
            \/ a.o[key].k # AnalysisFieldKind(key)
       THEN "ValidationError"
  ELSE "ok"

\* The response object: explicit keywords plus the declared analysis fields
\* (keys the model does not declare are ignored).
BuildResponse(p, b, a) ==
  [patient_id |-> p.patient_id.s,
   name |-> p.name.s,
   age |-> p.age.i,
   gender |-> p.gender.s,
   bmi |-> b,
   bp |-> FormatBp(p),
   glucose_hba1c |-> FormatGlucose(p),
   lipid_profile |-> FormatLipid(p),
   summary |-> a.o.summary.s,
   risk_score |-> a.o.risk_score.i,
   risk_bucket |-> a.o.risk_bucket.s,
   contributing_factors |-> a.o.contributing_factors.l,
   potential_future_risks |-> a.o.potential_future_risks.l,
   personalized_recommendations |-> a.o.personalized_recommendations.l,
   recommended_lifestyle_programs |-> a.o.recommended_lifestyle_programs.l]

NoResponse == [k |-> "none"]

----------------------------------------------------------------------------
(* Request bodies and provider replies the model draws from *)

BaseBody ==
  [patient_id |-> JStr("P001"), name |-> JStr("Asha"), age |-> JInt(45),
   gender |-> JStr("F"), height_cm |-> JInt(175), weight_kg |-> JInt(70),
   bp_systolic |-> JInt(120), bp_diastolic |-> JInt(80),
   fasting_glucose |-> JInt(95), hba1c |-> JInt(57),
   total_cholesterol |-> JInt(180), hdl |-> JInt(50), ldl |-> JInt(100),
   triglycerides |-> JInt(150), smoker |-> JBool(FALSE),
   alcohol_units_per_week |-> JInt(2),
   physical_activity_min_per_week |-> JInt(90), notes |-> JStr("none")]

\* <<height_cm, weight_kg>> pairs: a usual adult, exact rounding ties
\* (0.25 and 0.75), a value above and below a tie, and a zero height.
Anthropometrics == {<<175, 70>>, <<200, 1>>, <<200, 3>>, <<160, 70>>,
                    <<0, 70>>}

\* Well-typed bodies: anthropometrics and smoker flag vary, or HbA1c does.
TypedBodies ==
  {[BaseBody EXCEPT !.height_cm = JInt(hw[1]), !.weight_kg = JInt(hw[2]),
                    !.smoker = JBool(sm)] :
     hw \in Anthropometrics, sm \in BOOLEAN}
    \cup {[BaseBody EXCEPT !.hba1c = JInt(a)] : a \in {0, 62}}

\* Well-typed bodies with one numeric field zero or negative.
NumericFields == (IntFields \cup FloatFields) \ {"hba1c"}

OutOfRangeBodies ==
  {[BaseBody EXCEPT ![f] = JInt(v)] : f \in NumericFields, v \in {0 - 1, 0}}

\* Bodies with one field left out, null, or of the wrong JSON type.
DefectBodies ==
  {[BaseBody EXCEPT ![f] = v] :
     f \in PatientFields, v \in {Absent, JNull, JList(<< >>)}}

\* Bodies with one number spelled as a string.
CoercedBodies == {[BaseBody EXCEPT !.age = JNumStr(45)],
                  [BaseBody EXCEPT !.height_cm = JNumStr(175)],
                  [BaseBody EXCEPT !.smoker = JNumStr(1)]}

Bodies ==
  TypedBodies \cup OutOfRangeBodies \cup DefectBodies \cup CoercedBodies

GoodDoc ==
  [summary |-> JStr("Stable profile."),
   risk_score |-> JInt(35),
   risk_bucket |-> JStr("Normal"),
   contributing_factors |-> JList(<<"Overweight">>),
   potential_future_risks |-> JList(<<"Hypertension">>),
   personalized_recommendations |-> JList(<<"Walk daily">>),
   recommended_lifestyle_programs |-> JList(<<"General Wellness Checkup">>)]

\* A value the declared type of key rejects.
WrongKind(key) ==
  CASE AnalysisFieldKind(key) = "list" -> JStr("n/a")
    [] AnalysisFieldKind(key) = "int" -> JStr("high")
    [] OTHER -> JList(<< >>)

\* JSON documents the provider may return.
ProviderDocs ==
  {JObj(GoodDoc)}
    \cup {JObj([GoodDoc EXCEPT !.risk_bucket = JStr(b)]) :
            b \in {"Potential Risk", "High Risk", "Moderate"}}
    \cup {JObj([GoodDoc EXCEPT !.recommended_lifestyle_programs = JList(l)]) :
            l \in {<<"Hypertension Control", "Yoga Retreat">>, << >>}}
    \cup {JObj([GoodDoc EXCEPT !.risk_score = JInt(150)])}
    \cup {JObj([key \in AnalysisKeys \ {gone} |-> GoodDoc[key]]) :
            gone \in AnalysisKeys}
    \cup {JObj([GoodDoc EXCEPT ![key] = JNull]) : key \in AnalysisKeys}
    \cup {JObj([GoodDoc EXCEPT ![key] = WrongKind(key)]) :
            key \in AnalysisKeys}
    \cup {JObj((key :> JStr("X999")) @@ GoodDoc) :
            key \in ExplicitKeys \cup {"confidence"}}
    \cup {JNull, JInt(7), JStr("ok"), JList(<< >>), JObj(<< >>)}

RECURSIVE TextsOfLen(_)
TextsOfLen(n) ==
  IF n = 0 THEN {<< >>}
  ELSE {Append(t, tok) : t \in TextsOfLen(n - 1), tok \in TextTokens}

Texts == UNION {TextsOfLen(n) : n \in 0..MaxTextLen}

HasOneDoc(text) == Len(SelectSeq(text, LAMBDA t : t = Doc)) = 1

\* What the provider does with one call: raise, or return a text.  doc is
\* the content of the text's Doc token; texts with no document or with
\* several have no single content.
ProviderOutcomes ==
  {[k |-> "raise"]}
    \cup {[k |-> "text", text |-> t, doc |-> JNull] :
            t \in {x \in Texts : ~HasOneDoc(x)}}
    \cup {[k |-> "text", text |-> t, doc |-> d] :
            t \in {x \in Texts : HasOneDoc(x)}, d \in ProviderDocs}

----------------------------------------------------------------------------
(* The request *)

Init ==
  /\ pc = "idle"
  /\ body = Absent
  /\ patient = None
  /\ bmi = 0
  /\ calls = 0
  /\ outcome = None
  /\ analysis = None
  /\ source = "none"
  /\ logged = FALSE
  /\ status = 0
  /\ response = NoResponse

\* A POST /analyze request arrives.
ReceiveRequest ==
  /\ pc = "idle"
  /\ \E b \in Bodies : body' = b
  /\ pc' = "validate"
  /\ UNCHANGED <<patient, bmi, calls, outcome, analysis, source, logged,
                 status, response>>

\* Variant: a rejected body is answered as a server error.
ValidateInput_ServerError ==
  /\ pc = "validate"
  /\ IF ValidationErrors(body) # {}
     THEN /\ status' = 500
          /\ pc' = "done"
          /\ UNCHANGED patient
     ELSE /\ patient' = ParsePatient(body)
          /\ pc' = "bmi"
          /\ UNCHANGED status
  /\ UNCHANGED <<body, bmi, calls, outcome, analysis, source, logged,
                 response>>

\* The body is validated against PatientInput before analyze_patient runs;
\* a rejected body is answered with 422.
ValidateInput ==
  /\ pc = "validate"
  /\ IF ValidationErrors(body) # {}
     THEN /\ status' = 422
          /\ pc' = "done"
          /\ UNCHANGED patient
     ELSE /\ patient' = ParsePatient(body)
          /\ pc' = "bmi"
          /\ UNCHANGED status
  /\ UNCHANGED <<body, bmi, calls, outcome, analysis, source, logged,
                 response>>

\* bmi = calculate_bmi(patient.weight_kg, patient.height_cm); a zero height
\* raises ZeroDivisionError, which the server answers with 500.
ComputeBmi ==
  /\ pc = "bmi"
  /\ IF patient.height_cm.i = 0
     THEN /\ status' = 500
          /\ pc' = "done"
          /\ UNCHANGED bmi
     ELSE /\ bmi' \in calculate_bmi(patient.weight_kg.i, patient.height_cm.i)
          /\ pc' = "provider"
          /\ UNCHANGED status
  /\ UNCHANGED <<body, patient, calls, outcome, analysis, source, logged,
                 response>>

\* analyze_with_gemini: one outbound call, model.generate_content(prompt),
\* which raises or returns a text; the text is stripped of its fences and
\* parsed.  Any exception selects the fallback payload and is logged.
AnalyzeWithGemini ==
  /\ pc = "provider"
  /\ calls' = calls + 1
  /\ \E o \in ProviderOutcomes :
       /\ outcome' = o
       /\ IF o.k = "text" /\ JsonLoads(StripFences(o.text)) = "ok"
          THEN /\ analysis' = o.doc
               /\ source' = "provider"
               /\ UNCHANGED logged
          ELSE /\ analysis' = Fallback(patient)
               /\ source' = "fallback"
               /\ logged' = TRUE
  /\ pc' = "build"
  /\ UNCHANGED <<body, patient, bmi, status, response>>

\* return ClinicalSummaryResponse(..., **analysis); an exception raised by
\* the construction is answered with 500.
Respond ==
  /\ pc = "build"
  /\ IF BuildOutcome(analysis) = "ok"
     THEN /\ response' = BuildResponse(patient, bmi, analysis)
          /\ status' = 200
     ELSE /\ status' = 500
          /\ UNCHANGED response
  /\ pc' = "done"
  /\ UNCHANGED <<body, patient, bmi, calls, outcome, analysis, source,
                 logged>>

Next ==
  \/ ReceiveRequest
  \/ ValidateInput
  \/ ComputeBmi
  \/ AnalyzeWithGemini
  \/ Respond

Spec == Init /\ [][Next]_vars

----------------------------------------------------------------------------
(* Vocabulary of the properties *)

MaxWeightKg == 100
MaxHeightCm == 200

InSeq(x, seq) == \E i \in 1..Len(seq) : seq[i] = x

\* The data-model invariant of a parsed record: age, height and weight are
\* positive, vitals and lipid values are non-negative.
DataModelValid(p) ==
  /\ p.age.i > 0
  /\ p.height_cm.i > 0
  /\ p.weight_kg.i > 0
  /\ \A f \in {"bp_systolic", "bp_diastolic", "fasting_glucose",
               "total_cholesterol", "hdl", "ldl", "triglycerides"} :
       p[f].i >= 0
  /\ p.hba1c.k = "none" \/ p.hba1c.i >= 0

\* A body the data model calls valid: well-typed and within range.
RecordValid(b) ==
  /\ \A f \in PatientFields :
       \/ b[f].k \in {"str", "int", "bool"}
       \/ f \in OptionalFields /\ b[f].k \in {"absent", "null"}
       \/ f = "smoker" /\ b[f].k = "absent"
  /\ DataModelValid(ParsePatient(b))

\* A malformed body: a required field is missing, or a field has a JSON
\* type that cannot be converted to the declared type.
Malformed(b) ==
  \/ \E f \in {"patient_id", "name", "age", "gender", "height_cm",
               "weight_kg", "bp_systolic", "bp_diastolic",
               "fasting_glucose", "total_cholesterol", "hdl", "ldl",
               "triglycerides"} : b[f].k = "absent"
  \/ \E f \in PatientFields : b[f].k = "list"

\* The text holds no single JSON document once fences and blanks are set
\* aside.
Unparseable(text) ==
  SelectSeq(text, LAMBDA t : t \notin {FenceJson, Fence, Space}) # <<Doc>>

\* The provider's reply has the AnalysisResult shape.
HasAnalysisShape(d) ==
  /\ d.k = "obj"
  /\ AnalysisKeys \subseteq DOMAIN d.o
  /\ d.o.summary.k = "str"
  /\ d.o.risk_score.k = "int"
  /\ d.o.risk_bucket.k = "str"
  /\ d.o.contributing_factors.k = "list"
  /\ d.o.potential_future_risks.k = "list"
  /\ d.o.personalized_recommendations.k = "list"
  /\ d.o.recommended_lifestyle_programs.k = "list"

ProviderRaisedOrUnparseable ==
  \/ outcome.k = "raise"
  \/ outcome.k = "text" /\ Unparseable(outcome.text)

ProviderFailed ==
  \/ ProviderRaisedOrUnparseable
  \/ outcome.k = "text" /\ ~HasAnalysisShape(outcome.doc)

\* b (in tenths) is a nearest tenth to w / (h / 100) ^ 2.
NearestTenth(b, w, h) ==
  LET diff == b * h * h - 100000 * w
  IN  2 * (IF diff < 0 THEN 0 - diff ELSE diff) <= h * h

----------------------------------------------------------------------------
(* Properties *)

\* C1: for every valid PatientRecord and every behaviour of the provider,
\* the request ends with HTTP 200 and a populated response body.
C1_AlwaysOkAndPopulated ==
  (pc = "done" /\ RecordValid(body)) =>
    (status = 200 /\ response # NoResponse)

\* C2: when the provider call raises or its text does not parse as JSON
\* after fence stripping, the response carries the fallback: risk_bucket
\* "High Risk", risk_score 82, and contributing_factors holds "Smoking"
\* iff smoker is true and "Sedentary lifestyle" iff smoker is false.
C2_FallbackOnRaiseOrUnparseable ==
  (pc = "done" /\ ProviderRaisedOrUnparseable) =>
    /\ status = 200
    /\ response.risk_bucket = "High Risk"
    /\ response.risk_score = 82
    /\ InSeq("Smoking", response.contributing_factors) <=> patient.smoker.b
    /\ InSeq("Sedentary lifestyle", response.contributing_factors)
         <=> ~patient.smoker.b

C2_Witness ==
  /\ pc = "done"
  /\ outcome.k = "text"
  /\ outcome.text = <<FenceJson, Prose, Fence>>
  /\ patient.smoker.b
  /\ status = 200
  /\ InSeq("Smoking", response.contributing_factors)

\* C3: every provider-side failure, a parsed reply of the wrong shape
\* included, is replaced by the fallback and never surfaces: once the
\* provider has been called the request ends with 200, and with the
\* fallback content whenever the provider failed.  Stated for valid
\* records, where no other failure can interfere.
C3_ProviderFailuresAbsorbed ==
  (pc = "done" /\ outcome.k # "none" /\ RecordValid(body)) =>
    /\ status = 200
    /\ ProviderFailed =>
         response = BuildResponse(patient, bmi, Fallback(patient))

\* C4: a request whose input passes validation has made exactly one
\* outbound provider call by the time it is answered.
C4_ExactlyOneCall ==
  (pc = "done" /\ status # 422) => calls = 1

C6_RiskBucketEnumerated ==
  (status = 200 /\ RecordValid(body)) => response.risk_bucket \in RiskBuckets

\* C7: in every 200 response each recommended_lifestyle_programs element
\* belongs to the 9-program catalog (stated for valid records).
C7_ProgramsInCatalog ==
  (status = 200 /\ RecordValid(body)) =>
    \A i \in 1..Len(response.recommended_lifestyle_programs) :
      response.recommended_lifestyle_programs[i] \in Catalog

\* C8: every record that is accepted and processed satisfies the
\* data-model invariant; a record violating it is rejected with a
\* validation error.
C8_ProcessedRecordsValid ==
  /\ pc \in {"bmi", "provider", "build"} => DataModelValid(patient)
  /\ (pc = "done" /\ status # 422) => DataModelValid(ParsePatient(body))

\* C9: for positive weight and height calculate_bmi is weight /
\* (height/100)^2 rounded to one decimal, calculate_bmi(70, 175) = 22.9,
\* and the bmi of a response is that value for the request's weight_kg and
\* height_cm.  The function's part does not depend on the state and is
\* evaluated in the initial state only.
C9_BmiRoundedToOneDecimal ==
  /\ pc = "idle" =>
       /\ calculate_bmi(70, 175) = {229}
       /\ \A w \in 1..MaxWeightKg, h \in 1..MaxHeightCm :
            \A b \in calculate_bmi(w, h) : NearestTenth(b, w, h)
  /\ (status = 200 /\ body.weight_kg.i > 0 /\ body.height_cm.i > 0) =>
       /\ NearestTenth(response.bmi, body.weight_kg.i, body.height_cm.i)
       /\ response.bmi \in calculate_bmi(body.weight_kg.i, body.height_cm.i)

C9_Witness ==
  /\ status = 200
  /\ body.weight_kg.i = 70
  /\ body.height_cm.i = 175
  /\ response.bmi = 229

\* C10: in every 200 response the identity fields, bmi and the formatted
\* strings come from the request alone; a provider reply that itself
\* carries one of those keys never yields a 200 response.
C10_IdentityFromRequestOnly ==
  /\ status = 200 =>
       /\ response.patient_id = body.patient_id.s
       /\ response.name = body.name.s
       /\ response.age = body.age.i
       /\ response.gender = body.gender.s
       /\ response.bmi \in calculate_bmi(body.weight_kg.i, body.height_cm.i)
       /\ response.bp = FormatBp(ParsePatient(body))
       /\ response.glucose_hba1c = FormatGlucose(ParsePatient(body))
       /\ response.lipid_profile = FormatLipid(ParsePatient(body))
  /\ (pc = "done" /\ source = "provider" /\ analysis.k = "obj"
        /\ DOMAIN analysis.o \cap ExplicitKeys # {}) => status # 200

C10_Witness ==
  /\ pc = "done"
  /\ source = "provider"
  /\ analysis.k = "obj"
  /\ "patient_id" \in DOMAIN analysis.o
  /\ status = 500
  /\ response = NoResponse

====
